---- MODULE Spec2Model ----
(***************************************************************************)
(* IPCPeer (ipc_peer.go): an in-process peer that delivers messages to a   *)
(* bound consensus engine after a randomized delay, and drives the         *)
(* engine's clock with a self-rescheduling Update tick until Close.        *)
(*                                                                         *)
(* Goroutines are modelled as a pool of threads, each executing one call   *)
(* (a delivery closure, Update, Close, an accessor or a passthrough) one   *)
(* atomic step at a time: a step is a lock operation, or the code between  *)
(* two lock operations that no other step can observe half-done.           *)
(* Durations are integers (one unit = one millisecond).                    *)
(***************************************************************************)
EXTENDS Integers, Sequences, FiniteSets, Bags, TLC

\* ---------------------------------------------------------------- bounds
NPeers == 2            \* transports constructed
MaxSends == 3          \* Send calls, all transports together
MaxOwnerUpdates == 2   \* Update calls made directly by the owner
MaxCloses == 2         \* Close calls
MaxReads == 1          \* accessor / passthrough calls

Peers == 1..NPeers

\* ------------------------------------------------------ program constants
\* math.MaxInt64, the initial minLatency.  The model's integers are 32 bits
\* wide, so the constant is represented by the largest of them; every delay
\* the model samples is far below it, as every time.Duration is <= MaxInt64.
MaxInt64 == 2147483647
\* 20*time.Millisecond, the period of the Update tick
TickInterval == 20

\* payload lengths the owner sends
MsgLens == {1, 2}
\* mean latencies a transport may be constructed with
Latencies == {0, 10}
\* values of rand.NormFloat64() the model draws (whole standard deviations)
NormSamples == {-20, 0, 3}

\* What the owner of the transports does in one run: how many transports it
\* constructs, how many calls of each kind it makes, and which inputs it and
\* the random source supply (mean latencies, payload lengths, normal samples).
Workload(np, ns, nu, nc, nr, in) ==
    [peers |-> np, sends |-> ns, updates |-> nu, closes |-> nc, reads |-> nr,
     lens |-> in.lens, samples |-> in.samples, latencies |-> in.latencies]
AllPayloads == [lens |-> MsgLens, samples |-> {-20}, latencies |-> Latencies]
OneInput == [lens |-> {2}, samples |-> {-20}, latencies |-> {10}]
AllDelays == [lens |-> {2}, samples |-> NormSamples, latencies |-> {10}]

\* a run that only sends
OnlySends == Workload(1, MaxSends, 0, 0, 0, AllPayloads)
\* sends racing with Close, and sends racing with an accessor
SendsAndClose == Workload(1, MaxSends - 1, 0, 1, 0, OneInput)
SendsAndRead == Workload(1, MaxSends - 1, 0, 0, 1, AllDelays)
\* the update loop and its shutdown
Ticks == Workload(1, 0, MaxOwnerUpdates, MaxCloses, 0, OneInput)
\* one call of every kind on one transport
Mixed == Workload(1, 1, 1, 1, MaxReads, OneInput)
\* several transports
Several == Workload(NPeers, 1, 1, 1, 0, OneInput)

\* an update loop on one transport, accessors and passthroughs on any
Across == Workload(NPeers, 0, 1, 0, MaxReads, OneInput)

\* the runs Init draws from
Workloads == {OnlySends, SendsAndClose, SendsAndRead, Ticks, Mixed, Several, Across}
\* the runs whose liveness is checked: each constructs one transport
TicksAndClose == Workload(1, 0, MaxOwnerUpdates, 1, 0, OneInput)
OneOfEach == Workload(1, 1, 1, 1, 1, OneInput)
LiveWorkloads == {SendsAndClose, TicksAndClose, OneOfEach}
LivePeers == {1}
LiveSends == 1..(MaxSends - 1)

VARIABLES
    workload,      \* what the owner does in this run (fixed at construction)
    latency,       \* p.latency
    locked,        \* p.Mutex: TRUE while held
    die,           \* p.die: "open" or "closed"
    onceDone,      \* p.dieOnce: its done flag (0 or 1)
    onceM,         \* p.dieOnce: its internal mutex, TRUE while held
    msgCount,      \* p.msgCount
    bytesCount,    \* p.bytesCount
    minLatency,    \* p.minLatency
    maxLatency,    \* p.maxLatency
    totalLatency,  \* p.totalLatency
    sched,         \* timer.SystemTimedSched: the bag of submitted callbacks
    running,       \* the bag of calls in progress: each goroutine's call and position
    sent,          \* per transport: the Send calls made, in order (payload length,
                   \* sampled delay, whether die was closed and the lock
                   \* held at the call, the error returned)
    received,      \* per transport: ids the engine's ReceiveMessage got, in order
    ownerUpdates,  \* per transport: Update calls made directly by the owner
    closeCalls,    \* per transport: Close calls made
    reads,         \* accessor / passthrough calls made
    closeCount,    \* per transport: times close(p.die) was executed
    ticksAfterClose, \* per transport: Update ticks the scheduler started after die was closed
    panicked       \* TRUE once a goroutine has panicked

stats == <<msgCount, bytesCount, minLatency, maxLatency, totalLatency>>
vars == <<workload, latency, locked, die, onceDone, onceM, msgCount, bytesCount,
          minLatency, maxLatency, totalLatency, sched, running, sent, received,
          ownerUpdates, closeCalls, reads, closeCount, ticksAfterClose, panicked>>

\* ---------------------------------------------------------------- helpers
\* float-to-Duration conversion truncates toward zero
TruncDiv(x, d) == IF x >= 0 THEN x \div d ELSE -((-x) \div d)

\* time.Duration(0.1*rand.NormFloat64()*float64(p.latency)) + p.latency
delay(lat, z) == TruncDiv(z * lat, 10) + lat

\* a call in progress: what runs (op), where it is (pc), on which transport,
\* its captured variables (id, msg, delay), and what it has done so far
NewCall(op, p) ==
    [op |-> op, pc |-> "lock", peer |-> p, id |-> 0, msg |-> 0, delay |-> 0,
     tick |-> FALSE, dieAtStart |-> "open", sawOpen |-> FALSE,
     calls |-> 0, puts |-> 0, err |-> FALSE, ret |-> <<>>]

\* A panic ends the process: after it no goroutine takes a step, the owner
\* makes no call and the scheduler runs nothing.
Calls == IF panicked THEN {} ELSE BagToSet(running)
Live == IF panicked THEN {} ELSE 1..workload.peers
Tasks == IF panicked THEN {} ELSE BagToSet(sched)
Start(c) == running (+) SetToBag({c})
Move(c, d) == (running (-) SetToBag({c})) (+) SetToBag({d})
Return(c) == running (-) SetToBag({c})

\* a callback as handed to timer.SystemTimedSched.Put(f, time.Now().Add(after))
TxTask(p, i, n, d) == [kind |-> "tx", peer |-> p, id |-> i, msg |-> n, delay |-> d, after |-> d]
TickTask(p) == [kind |-> "update", peer |-> p, id |-> 0, msg |-> 0, delay |-> 0, after |-> TickInterval]

Put(task) == sched (+) SetToBag({task})

RECURSIVE SumOver(_)
SumOver(f) == IF DOMAIN f = {} THEN 0
              ELSE LET x == CHOOSE y \in DOMAIN f : TRUE
                   IN f[x] + SumOver([y \in DOMAIN f \ {x} |-> f[y]])
TotalSends == SumOver([p \in Peers |-> Len(sent[p])])
TotalOwnerUpdates == SumOver(ownerUpdates)
TotalCloses == SumOver(closeCalls)

\* ---------------------------------------------------------------- NewIPCPeer
Setup(W) ==
    /\ workload \in W
    /\ latency \in [Peers -> workload.latencies \cup {0}]
    /\ \A p \in Peers : p <= workload.peers => latency[p] \in workload.latencies
    /\ \A p \in Peers : p > workload.peers => latency[p] = 0
    /\ locked = [p \in Peers |-> FALSE]
    /\ die = [p \in Peers |-> "open"]
    /\ onceDone = [p \in Peers |-> 0]
    /\ onceM = [p \in Peers |-> FALSE]
    /\ msgCount = [p \in Peers |-> 0]
    /\ bytesCount = [p \in Peers |-> 0]
    /\ minLatency = [p \in Peers |-> MaxInt64]
    /\ maxLatency = [p \in Peers |-> 0]
    /\ totalLatency = [p \in Peers |-> 0]
    /\ sched = EmptyBag
    /\ running = EmptyBag
    /\ sent = [p \in Peers |-> <<>>]
    /\ received = [p \in Peers |-> <<>>]
    /\ ownerUpdates = [p \in Peers |-> 0]
    /\ closeCalls = [p \in Peers |-> 0]
    /\ reads = 0
    /\ closeCount = [p \in Peers |-> 0]
    /\ ticksAfterClose = [p \in Peers |-> 0]
    /\ panicked = FALSE

Init == Setup(Workloads)

\* ---------------------------------------------------------------- Send
\* what is recorded of a Send call: its payload length, its sampled delay, the
\* state of die and of the lock when it was made, and the error it returned
SendRecord(p, n, d) ==
    [msg |-> n, delay |-> d, closed |-> die[p] = "closed", held |-> locked[p],
     err |-> FALSE]

\* as Send, taking the transport's lock around the submission
Send_locks(p, n, z) ==
    /\ TotalSends < workload.sends
    /\ ~locked[p]
    /\ sent' = [sent EXCEPT ![p] = Append(@, SendRecord(p, n, delay(latency[p], z)))]
    /\ sched' = Put(TxTask(p, Len(sent[p]) + 1, n, delay(latency[p], z)))
    /\ UNCHANGED <<workload, latency, locked, die, onceDone, onceM, stats, running, received, ownerUpdates, closeCalls, reads, closeCount, ticksAfterClose, panicked>>

\* as Send, submitting nothing once die is closed
Send_checksDie(p, n, z) ==
    /\ TotalSends < workload.sends
    /\ sent' = [sent EXCEPT ![p] = Append(@, SendRecord(p, n, delay(latency[p], z)))]
    /\ sched' = IF die[p] = "closed" THEN sched
                ELSE Put(TxTask(p, Len(sent[p]) + 1, n, delay(latency[p], z)))
    /\ UNCHANGED <<workload, latency, locked, die, onceDone, onceM, stats, running, received, ownerUpdates, closeCalls, reads, closeCount, ticksAfterClose, panicked>>

\* as Send, counting the message and its bytes at submission
Send_countsAtSubmit(p, n, z) ==
    /\ TotalSends < workload.sends
    /\ sent' = [sent EXCEPT ![p] = Append(@, SendRecord(p, n, delay(latency[p], z)))]
    /\ sched' = Put(TxTask(p, Len(sent[p]) + 1, n, delay(latency[p], z)))
    /\ msgCount' = [msgCount EXCEPT ![p] = @ + 1]
    /\ bytesCount' = [bytesCount EXCEPT ![p] = @ + n]
    /\ UNCHANGED <<workload, latency, locked, die, onceDone, onceM, minLatency, maxLatency, totalLatency, running, received, ownerUpdates, closeCalls, reads, closeCount, ticksAfterClose, panicked>>

\* Send(msg): sample the delay, build the closure, Put it, return nil; no lock,
\* no die check
Send(p, n, z) ==
    /\ TotalSends < workload.sends
    /\ LET d == delay(latency[p], z)
           i == Len(sent[p]) + 1
       IN /\ sent' = [sent EXCEPT ![p] = Append(@, SendRecord(p, n, d))]
          /\ sched' = Put(TxTask(p, i, n, d))
    /\ UNCHANGED <<workload, latency, locked, die, onceDone, onceM, stats, running, received, ownerUpdates, closeCalls, reads, closeCount, ticksAfterClose, panicked>>

\* ---------------------------------------------------------------- scheduler
\* the scheduler runs a submitted callback on a goroutine of its own
Fire(task) ==
    /\ BagIn(task, sched)
    /\ sched' = sched (-) SetToBag({task})
    /\ running' = Start([NewCall(task.kind, task.peer) EXCEPT
                            !.id = task.id, !.msg = task.msg, !.delay = task.delay,
                            !.tick = (task.kind = "update"),
                            !.dieAtStart = die[task.peer]])
    /\ ticksAfterClose' = IF task.kind = "update" /\ die[task.peer] = "closed"
                          THEN [ticksAfterClose EXCEPT ![task.peer] = @ + 1]
                          ELSE ticksAfterClose
    /\ UNCHANGED <<workload, latency, locked, die, onceDone, onceM, stats, sent, received, ownerUpdates, closeCalls, reads, closeCount, panicked>>

\* ---------------------------------------------------------------- the lock
\* as Lock, with one mutex shared by all transports
Lock_global(c) ==
    /\ c.pc = "lock"
    /\ \A q \in Peers : ~locked[q]
    /\ locked' = [locked EXCEPT ![c.peer] = TRUE]
    /\ running' = Move(c, [c EXCEPT !.pc = "body"])
    /\ UNCHANGED <<workload, latency, die, onceDone, onceM, stats, sched, sent, received, ownerUpdates, closeCalls, reads, closeCount, ticksAfterClose, panicked>>

\* as Lock, with deliveries admitted in the order of their Sends
Lock_inOrder(c) ==
    /\ c.pc = "lock"
    /\ ~locked[c.peer]
    /\ \A o \in Calls :
          (o.op = "tx" /\ o.peer = c.peer /\ o.pc = "lock" /\ c.op = "tx") => c.id <= o.id
    /\ locked' = [locked EXCEPT ![c.peer] = TRUE]
    /\ running' = Move(c, [c EXCEPT !.pc = "body"])
    /\ UNCHANGED <<workload, latency, die, onceDone, onceM, stats, sched, sent, received, ownerUpdates, closeCalls, reads, closeCount, ticksAfterClose, panicked>>

\* as Lock, without waiting for the mutex to be free
Lock_noWait(c) ==
    /\ c.pc = "lock"
    /\ locked' = [locked EXCEPT ![c.peer] = TRUE]
    /\ running' = Move(c, [c EXCEPT !.pc = "body"])
    /\ UNCHANGED <<workload, latency, die, onceDone, onceM, stats, sched, sent, received, ownerUpdates, closeCalls, reads, closeCount, ticksAfterClose, panicked>>

\* p.Lock(): the first statement of every guarded call
Lock(c) ==
    /\ c.pc = "lock"
    /\ ~locked[c.peer]
    /\ locked' = [locked EXCEPT ![c.peer] = TRUE]
    /\ running' = Move(c, [c EXCEPT !.pc = "body"])
    /\ UNCHANGED <<workload, latency, die, onceDone, onceM, stats, sched, sent, received, ownerUpdates, closeCalls, reads, closeCount, ticksAfterClose, panicked>>

\* defer p.Unlock(): the call returns
Unlock(c) ==
    /\ c.pc = "unlock"
    /\ locked' = [locked EXCEPT ![c.peer] = FALSE]
    /\ running' = Return(c)
    /\ UNCHANGED <<workload, latency, die, onceDone, onceM, stats, sched, sent, received, ownerUpdates, closeCalls, reads, closeCount, ticksAfterClose, panicked>>

\* ---------------------------------------------------------------- txDelay
\* as StatsAfter, counting one byte per message instead of len(msg)
StatsAfter_bytes(p, d, n) ==
    [min |-> IF minLatency[p] > d THEN d ELSE minLatency[p],
     max |-> IF maxLatency[p] < d THEN d ELSE maxLatency[p],
     total |-> totalLatency[p] + d,
     count |-> msgCount[p] + 1,
     bytes |-> bytesCount[p] + 1]

\* as StatsAfter, with a negative delay clamped to zero before it is recorded
StatsAfter_clamp(p, d, n) ==
    LET e == IF d < 0 THEN 0 ELSE d
    IN [min |-> IF minLatency[p] > e THEN e ELSE minLatency[p],
        max |-> IF maxLatency[p] < e THEN e ELSE maxLatency[p],
        total |-> totalLatency[p] + e,
        count |-> msgCount[p] + 1,
        bytes |-> bytesCount[p] + n]

\* the statistics update of the delivery closure
StatsAfter(p, d, n) ==
    [min |-> IF minLatency[p] > d THEN d ELSE minLatency[p],
     max |-> IF maxLatency[p] < d THEN d ELSE maxLatency[p],
     total |-> totalLatency[p] + d,
     count |-> msgCount[p] + 1,
     bytes |-> bytesCount[p] + n]

\* as txDelay, with a delivery that finds die closed dropped
txDelay_dropClosed(c) ==
    /\ c.op = "tx" /\ c.pc = "body"
    /\ IF die[c.peer] = "closed"
       THEN /\ running' = Move(c, [c EXCEPT !.pc = "unlock"])
            /\ UNCHANGED <<stats, received>>
       ELSE /\ minLatency' = [minLatency EXCEPT ![c.peer] = StatsAfter(c.peer, c.delay, c.msg).min]
            /\ maxLatency' = [maxLatency EXCEPT ![c.peer] = StatsAfter(c.peer, c.delay, c.msg).max]
            /\ totalLatency' = [totalLatency EXCEPT ![c.peer] = StatsAfter(c.peer, c.delay, c.msg).total]
            /\ msgCount' = [msgCount EXCEPT ![c.peer] = StatsAfter(c.peer, c.delay, c.msg).count]
            /\ bytesCount' = [bytesCount EXCEPT ![c.peer] = StatsAfter(c.peer, c.delay, c.msg).bytes]
            /\ received' = [received EXCEPT ![c.peer] = Append(@, c.id)]
            /\ running' = Move(c, [c EXCEPT !.pc = "unlock", !.calls = @ + 1])
    /\ UNCHANGED <<workload, latency, locked, die, onceDone, onceM, sched, sent, ownerUpdates, closeCalls, reads, closeCount, ticksAfterClose, panicked>>

\* as txDelay, with a message the engine rejects left out of the statistics
txDelay_errUncounted(c) ==
    /\ c.op = "tx" /\ c.pc = "body"
    /\ received' = [received EXCEPT ![c.peer] = Append(@, c.id)]
    /\ \E e \in BOOLEAN :
          /\ running' = Move(c, [c EXCEPT !.pc = "unlock", !.calls = @ + 1, !.err = e])
          /\ IF e
             THEN UNCHANGED stats
             ELSE /\ minLatency' = [minLatency EXCEPT ![c.peer] = StatsAfter(c.peer, c.delay, c.msg).min]
                  /\ maxLatency' = [maxLatency EXCEPT ![c.peer] = StatsAfter(c.peer, c.delay, c.msg).max]
                  /\ totalLatency' = [totalLatency EXCEPT ![c.peer] = StatsAfter(c.peer, c.delay, c.msg).total]
                  /\ msgCount' = [msgCount EXCEPT ![c.peer] = StatsAfter(c.peer, c.delay, c.msg).count]
                  /\ bytesCount' = [bytesCount EXCEPT ![c.peer] = StatsAfter(c.peer, c.delay, c.msg).bytes]
    /\ UNCHANGED <<workload, latency, locked, die, onceDone, onceM, sched, sent, ownerUpdates, closeCalls, reads, closeCount, ticksAfterClose, panicked>>

\* body of the delivery closure: statistics, then p.c.ReceiveMessage(msg, now),
\* whose error is dropped
txDelay(c) ==
    /\ c.op = "tx" /\ c.pc = "body"
    /\ LET p == c.peer
           s == StatsAfter(p, c.delay, c.msg)
       IN /\ minLatency' = [minLatency EXCEPT ![p] = s.min]
          /\ maxLatency' = [maxLatency EXCEPT ![p] = s.max]
          /\ totalLatency' = [totalLatency EXCEPT ![p] = s.total]
          /\ msgCount' = [msgCount EXCEPT ![p] = s.count]
          /\ bytesCount' = [bytesCount EXCEPT ![p] = s.bytes]
          /\ received' = [received EXCEPT ![p] = Append(@, c.id)]
    /\ \E e \in BOOLEAN :
          running' = Move(c, [c EXCEPT !.pc = "unlock", !.calls = @ + 1, !.err = e])
    /\ UNCHANGED <<workload, latency, locked, die, onceDone, onceM, sched, sent, ownerUpdates, closeCalls, reads, closeCount, ticksAfterClose, panicked>>

\* ---------------------------------------------------------------- Update
\* the owner calls p.Update()
Update(p) ==
    /\ TotalOwnerUpdates < workload.updates
    /\ ownerUpdates' = [ownerUpdates EXCEPT ![p] = @ + 1]
    /\ running' = Start([NewCall("update", p) EXCEPT !.dieAtStart = die[p]])
    /\ UNCHANGED <<workload, latency, locked, die, onceDone, onceM, stats, sched, sent, received, closeCalls, reads, closeCount, ticksAfterClose, panicked>>

\* as UpdateSelect, without the case <-p.die: the default branch always runs
UpdateSelect_noCheck(c) ==
    /\ c.op = "update" /\ c.pc = "body"
    /\ running' = Move(c, [c EXCEPT !.pc = "default", !.sawOpen = (die[c.peer] = "open")])
    /\ UNCHANGED <<workload, latency, locked, die, onceDone, onceM, stats, sched, sent, received, ownerUpdates, closeCalls, reads, closeCount, ticksAfterClose, panicked>>

\* select { case <-p.die: ... default: ... }: the non-blocking termination check
UpdateSelect(c) ==
    /\ c.op = "update" /\ c.pc = "body"
    /\ running' = IF die[c.peer] = "closed"
                  THEN Move(c, [c EXCEPT !.pc = "unlock"])
                  ELSE Move(c, [c EXCEPT !.pc = "default", !.sawOpen = TRUE])
    /\ UNCHANGED <<workload, latency, locked, die, onceDone, onceM, stats, sched, sent, received, ownerUpdates, closeCalls, reads, closeCount, ticksAfterClose, panicked>>

\* as UpdateDefault, returning without the Put when the engine reports an error
UpdateDefault_errReturn(c) ==
    /\ c.op = "update" /\ c.pc = "default"
    /\ \E e \in BOOLEAN :
          /\ sched' = IF e THEN sched ELSE Put(TickTask(c.peer))
          /\ running' = Move(c, [c EXCEPT !.pc = "unlock", !.calls = @ + 1,
                                          !.puts = IF e THEN @ ELSE @ + 1, !.err = e])
    /\ UNCHANGED <<workload, latency, locked, die, onceDone, onceM, stats, sent, received, ownerUpdates, closeCalls, reads, closeCount, ticksAfterClose, panicked>>

\* as UpdateDefault, without the Put
UpdateDefault_noPut(c) ==
    /\ c.op = "update" /\ c.pc = "default"
    /\ \E e \in BOOLEAN :
          running' = Move(c, [c EXCEPT !.pc = "unlock", !.calls = @ + 1, !.err = e])
    /\ UNCHANGED <<workload, latency, locked, die, onceDone, onceM, stats, sched, sent, received, ownerUpdates, closeCalls, reads, closeCount, ticksAfterClose, panicked>>

\* as UpdateDefault, with the Put made twice
UpdateDefault_twice(c) ==
    /\ c.op = "update" /\ c.pc = "default"
    /\ sched' = Put(TickTask(c.peer)) (+) SetToBag({TickTask(c.peer)})
    /\ \E e \in BOOLEAN :
          running' = Move(c, [c EXCEPT !.pc = "unlock", !.calls = @ + 1,
                                       !.puts = @ + 2, !.err = e])
    /\ UNCHANGED <<workload, latency, locked, die, onceDone, onceM, stats, sent, received, ownerUpdates, closeCalls, reads, closeCount, ticksAfterClose, panicked>>

\* the default branch: _ = p.c.Update(now), then Put(p.Update, now + 20ms)
UpdateDefault(c) ==
    /\ c.op = "update" /\ c.pc = "default"
    /\ sched' = Put(TickTask(c.peer))
    /\ \E e \in BOOLEAN :
          running' = Move(c, [c EXCEPT !.pc = "unlock", !.calls = @ + 1,
                                       !.puts = @ + 1, !.err = e])
    /\ UNCHANGED <<workload, latency, locked, die, onceDone, onceM, stats, sent, received, ownerUpdates, closeCalls, reads, closeCount, ticksAfterClose, panicked>>

\* ---------------------------------------------------------------- Close
\* a caller calls p.Close()
Close(p) ==
    /\ TotalCloses < workload.closes
    /\ closeCalls' = [closeCalls EXCEPT ![p] = @ + 1]
    /\ running' = Start([NewCall("close", p) EXCEPT !.pc = "once"])
    /\ UNCHANGED <<workload, latency, locked, die, onceDone, onceM, stats, sched, sent, received, ownerUpdates, reads, closeCount, ticksAfterClose, panicked>>

\* p.dieOnce.Do: the fast path returns when the done flag is set
OnceDo(c) ==
    /\ c.op = "close" /\ c.pc = "once"
    /\ running' = IF onceDone[c.peer] = 1
                  THEN Return(c)
                  ELSE Move(c, [c EXCEPT !.pc = "onceLock"])
    /\ UNCHANGED <<workload, latency, locked, die, onceDone, onceM, stats, sched, sent, received, ownerUpdates, closeCalls, reads, closeCount, ticksAfterClose, panicked>>

\* the slow path takes the Once's own mutex
OnceLock(c) ==
    /\ c.op = "close" /\ c.pc = "onceLock"
    /\ ~onceM[c.peer]
    /\ onceM' = [onceM EXCEPT ![c.peer] = TRUE]
    /\ running' = Move(c, [c EXCEPT !.pc = "doSlow"])
    /\ UNCHANGED <<workload, latency, locked, die, onceDone, stats, sched, sent, received, ownerUpdates, closeCalls, reads, closeCount, ticksAfterClose, panicked>>

\* as OnceMustRun, without the second look at the done flag
OnceMustRun_always(p) == TRUE

\* whether the slow path runs the function: the done flag read again under the mutex
OnceMustRun(p) == onceDone[p] = 0

\* as OnceSlow, with a function that returns without closing die
OnceSlow_noClose(c) ==
    /\ c.op = "close" /\ c.pc = "doSlow"
    /\ running' = Move(c, [c EXCEPT !.pc = "onceDone", !.sawOpen = OnceMustRun(c.peer)])
    /\ UNCHANGED <<workload, latency, locked, die, onceDone, onceM, stats, sched, sent, received, ownerUpdates, closeCalls, reads, closeCount, ticksAfterClose, panicked>>

\* under the mutex: run func() { close(p.die) } unless done; closing a closed
\* channel panics
OnceSlow(c) ==
    /\ c.op = "close" /\ c.pc = "doSlow"
    /\ IF OnceMustRun(c.peer)
       THEN /\ die' = [die EXCEPT ![c.peer] = "closed"]
            /\ closeCount' = [closeCount EXCEPT ![c.peer] = @ + 1]
            /\ panicked' = (panicked \/ die[c.peer] = "closed")
            /\ running' = Move(c, [c EXCEPT !.pc = "onceDone", !.sawOpen = TRUE])
       ELSE /\ running' = Move(c, [c EXCEPT !.pc = "onceDone"])
            /\ UNCHANGED <<die, closeCount, panicked>>
    /\ UNCHANGED <<workload, latency, locked, onceDone, onceM, stats, sched, sent, received, ownerUpdates, closeCalls, reads, ticksAfterClose>>

\* the deferred done.Store(1) (when the function ran) and m.Unlock(); Close returns
OnceDone(c) ==
    /\ c.op = "close" /\ c.pc = "onceDone"
    /\ onceDone' = IF c.sawOpen THEN [onceDone EXCEPT ![c.peer] = 1] ELSE onceDone
    /\ onceM' = [onceM EXCEPT ![c.peer] = FALSE]
    /\ running' = Return(c)
    /\ UNCHANGED <<workload, latency, locked, die, stats, sched, sent, received, ownerUpdates, closeCalls, reads, closeCount, ticksAfterClose, panicked>>

\* ------------------------------------------------- accessors, passthroughs
ReadOps == {"GetMessageCount", "GetBytesCount", "GetLatencies", "Propose", "GetLatestState"}

\* a caller calls one of the lock-guarded accessors or passthroughs
Call(p, op) ==
    /\ reads < workload.reads
    /\ reads' = reads + 1
    /\ running' = Start(NewCall(op, p))
    /\ UNCHANGED <<workload, latency, locked, die, onceDone, onceM, stats, sched, sent, received, ownerUpdates, closeCalls, closeCount, ticksAfterClose, panicked>>

\* the guarded body of an accessor: the value it will return
Returns(c, val) ==
    /\ c.pc = "body"
    /\ running' = Move(c, [c EXCEPT !.pc = "unlock", !.ret = val])
    /\ UNCHANGED <<workload, latency, locked, die, onceDone, onceM, stats, sched, sent, received, ownerUpdates, closeCalls, reads, closeCount, ticksAfterClose, panicked>>

GetMessageCount(c) ==
    /\ c.op = "GetMessageCount"
    /\ Returns(c, <<msgCount[c.peer]>>)

GetBytesCount(c) ==
    /\ c.op = "GetBytesCount"
    /\ Returns(c, <<bytesCount[c.peer]>>)

GetLatencies(c) ==
    /\ c.op = "GetLatencies"
    /\ Returns(c, <<minLatency[c.peer], maxLatency[c.peer], totalLatency[c.peer]>>)

\* the guarded body of a passthrough: one call into the bound engine
Delegates(c) ==
    /\ c.pc = "body"
    /\ running' = Move(c, [c EXCEPT !.pc = "unlock", !.calls = @ + 1])
    /\ UNCHANGED <<workload, latency, locked, die, onceDone, onceM, stats, sched, sent, received, ownerUpdates, closeCalls, reads, closeCount, ticksAfterClose, panicked>>

\* p.c.Propose(s)
Propose(c) ==
    /\ c.op = "Propose"
    /\ Delegates(c)

\* return p.c.CurrentState()
GetLatestState(c) ==
    /\ c.op = "GetLatestState"
    /\ Delegates(c)

\* ---------------------------------------------------------------- the program
Next ==
    \/ \E p \in Live, n \in workload.lens, z \in workload.samples : Send(p, n, z)
    \/ \E task \in Tasks : Fire(task)
    \/ \E c \in Calls : Lock(c)
    \/ \E c \in Calls : Unlock(c)
    \/ \E c \in Calls : txDelay(c)
    \/ \E p \in Live : Update(p)
    \/ \E c \in Calls : UpdateSelect(c)
    \/ \E c \in Calls : UpdateDefault(c)
    \/ \E p \in Live : Close(p)
    \/ \E c \in Calls : OnceDo(c)
    \/ \E c \in Calls : OnceLock(c)
    \/ \E c \in Calls : OnceSlow(c)
    \/ \E c \in Calls : OnceDone(c)
    \/ \E p \in Live, op \in ReadOps : Call(p, op)
    \/ \E c \in Calls : GetMessageCount(c)
    \/ \E c \in Calls : GetBytesCount(c)
    \/ \E c \in Calls : GetLatencies(c)
    \/ \E c \in Calls : Propose(c)
    \/ \E c \in Calls : GetLatestState(c)

Spec == Init /\ [][Next]_vars

\* ---------------------------------------------------------------- fairness
\* The scheduler runs every submitted callback, a goroutine that can take a
\* step takes it, and a goroutine waiting for a mutex gets it once it has been
\* free often enough (sync.Mutex hands over to starving waiters).  The owner's
\* calls (Send, Update, Close, accessors) are under no obligation to happen.
\* Delivery tasks, accessor calls and Close calls are finitely many in a run,
\* so fairness to each class as a whole is fairness to each of them.
FireTx == \E task \in Tasks : task.kind = "tx" /\ Fire(task)
FireTick(p) == \E task \in Tasks : task.kind = "update" /\ task.peer = p /\ Fire(task)
LockUpdate(p) == \E c \in Calls : c.op = "update" /\ c.peer = p /\ Lock(c)
LockOther == \E c \in Calls : c.op # "update" /\ Lock(c)
GuardedStep(p) ==
    \E c \in Calls :
        /\ c.peer = p
        /\ \/ txDelay(c) \/ UpdateSelect(c) \/ UpdateDefault(c) \/ Unlock(c)
           \/ GetMessageCount(c) \/ GetBytesCount(c) \/ GetLatencies(c)
           \/ Propose(c) \/ GetLatestState(c)
CloseStep == \E c \in Calls : OnceDo(c) \/ OnceSlow(c) \/ OnceDone(c)
OnceLockAny == \E c \in Calls : OnceLock(c)

Fairness ==
    /\ WF_vars(FireTx)
    /\ WF_vars(CloseStep)
    /\ SF_vars(OnceLockAny)
    /\ SF_vars(LockOther)
    /\ \A p \in LivePeers :
        /\ WF_vars(FireTick(p))
        /\ WF_vars(GuardedStep(p))
        /\ SF_vars(LockUpdate(p))

InitLive == Setup(LiveWorkloads)
LiveSpec == InitLive /\ [][Next]_vars /\ Fairness

\* ---------------------------------------------------------------- properties
\* the delivery tasks of transport p that have executed, as indices into sent[p]
Executed(p) == {received[p][k] : k \in 1..Len(received[p])}

RECURSIVE SumSeq(_, _)
\* the sum of f[i] over the entries i of the sequence ids
SumSeq(f, ids) == IF ids = <<>> THEN 0 ELSE f[Head(ids)] + SumSeq(f, Tail(ids))

PayloadSum(p) == SumSeq([i \in 1..Len(sent[p]) |-> sent[p][i].msg], received[p])
DelaySum(p) == SumSeq([i \in 1..Len(sent[p]) |-> sent[p][i].delay], received[p])

\* C1: in every reachable state msgCount is the number of delivery tasks that
\* have executed and bytesCount is the sum of their payload lengths (each
\* executed task adds exactly 1 and exactly len(msg)).
C1_CountersMatchDeliveries ==
    \A p \in Peers :
        /\ msgCount[p] = Len(received[p])
        /\ bytesCount[p] = PayloadSum(p)

\* C1 witness: all MaxSends messages of a run were delivered on one transport,
\* every one of them of the longest payload
C1_Witness ==
    \E p \in Peers :
        /\ Len(received[p]) = MaxSends
        /\ msgCount[p] = MaxSends
        /\ bytesCount[p] = MaxSends * 2

\* C2: for every executed delivery task minLatency <= d <= maxLatency, d the
\* delay sampled at its Send, unclamped; totalLatency is the sum of those delays.
C2_LatencyBounds ==
    \A p \in Peers :
        /\ \A i \in Executed(p) :
              /\ minLatency[p] <= sent[p][i].delay
              /\ sent[p][i].delay <= maxLatency[p]
        /\ totalLatency[p] = DelaySum(p)

\* C2 witness: a negative and a positive delay have both been recorded
C2_Witness ==
    \E p \in Peers :
        /\ \E i \in Executed(p) : sent[p][i].delay < 0
        /\ \E i \in Executed(p) : sent[p][i].delay > 0
        /\ minLatency[p] < 0
        /\ maxLatency[p] > 0

\* the number of times the engine's ReceiveMessage got message i of transport p
Deliveries(p, i) == Cardinality({k \in 1..Len(received[p]) : received[p][k] = i})

\* C3: every Send results in exactly one delivery: its task eventually executes
\* (the scheduler running every submitted callback), never twice, whether or
\* not Close comes between the Send and the firing of the task.
C3_ExactlyOneDelivery ==
    /\ [](\A p \in Peers : \A i \in 1..MaxSends : Deliveries(p, i) <= 1)
    /\ \A p \in LivePeers : \A i \in LiveSends :
          (Len(sent[p]) >= i) ~> (Deliveries(p, i) = 1)

\* C3 witness: a delivery task submitted while die was open was started after
\* die was closed, and has delivered its message
C3_Witness ==
    \E c \in Calls :
        /\ c.op = "tx" /\ c.pc = "unlock" /\ c.calls = 1
        /\ c.dieAtStart = "closed"
        /\ ~sent[c.peer][c.id].closed
        /\ Deliveries(c.peer, c.id) = 1

\* the number of calls in progress (each goroutine counted) that satisfy P
CountCalls(P(_)) ==
    SumOver([c \in {x \in BagToSet(running) : P(x)} |-> CopiesIn(c, running)])
\* the number of submitted, not yet started callbacks that satisfy P
CountTasks(P(_)) ==
    SumOver([t \in {x \in BagToSet(sched) : P(x)} |-> CopiesIn(t, sched)])

TicksPending(p) == LET P(t) == t.kind = "update" /\ t.peer = p IN CountTasks(P)
UpdatesRunning(p) == LET P(c) == c.op = "update" /\ c.peer = p IN CountCalls(P)
ClosesRunning(p) == LET P(c) == c.op = "close" /\ c.peer = p IN CountCalls(P)

\* C4: Close is idempotent and one-way: however many Close calls there are, in
\* sequence or interleaved, close(p.die) runs exactly once, in the first call to
\* get there; no call panics; and a closed die never opens again.
C4_CloseOnce ==
    /\ [](\A p \in Peers :
            /\ ~panicked
            /\ closeCount[p] <= 1
            /\ (die[p] = "closed") <=> (closeCount[p] = 1)
            /\ (closeCalls[p] > 0 /\ ClosesRunning(p) = 0) => die[p] = "closed")
    /\ [][\A p \in Peers : die[p] = "closed" => die'[p] = "closed"]_vars

\* C4 witness: a second Close call that raced past the fast path with the first
\* found the function already run, and is returning without having closed die
C4_Witness ==
    \E c \in Calls :
        /\ c.op = "close" /\ c.pc = "onceDone" /\ ~c.sawOpen
        /\ closeCalls[c.peer] = 2
        /\ closeCount[c.peer] = 1
        /\ die[c.peer] = "closed"

\* an Update call on p that is in its default branch, about to call the engine
InDefault(p) == \E c \in BagToSet(running) : c.op = "update" /\ c.peer = p /\ c.pc = "default"

\* C5: an Update that finds die open calls the engine's Update exactly once and
\* submits exactly one tick, due in 20ms, whether or not the engine reports an
\* error.
C5_OpenUpdateTicksOnce ==
    /\ [](\A c \in BagToSet(running) :
            (c.op = "update" /\ c.pc = "unlock" /\ c.sawOpen) => (c.calls = 1 /\ c.puts = 1))
    /\ [][\A p \in Peers :
            (InDefault(p) /\ ~InDefault(p)') =>
                /\ BagCardinality(sched') = BagCardinality(sched) + 1
                /\ \E t \in BagToSet(sched') :
                      /\ t.kind = "update" /\ t.peer = p /\ t.after = 20
                      /\ CopiesIn(t, sched') = CopiesIn(t, sched) + 1]_vars

\* C5 witness: an Update found die open, the engine reported an error, and the
\* next tick is in the scheduler
C5_Witness ==
    \E c \in Calls :
        /\ c.op = "update" /\ c.pc = "unlock" /\ c.sawOpen /\ c.err
        /\ c.calls = 1 /\ c.puts = 1
        /\ TicksPending(c.peer) = 1

\* C6: an Update that begins when die is already closed does nothing: no call
\* into the engine, no tick submitted, counters and latencies untouched.
C6_ClosedUpdateIsNoOp ==
    /\ [](\A c \in BagToSet(running) :
            (c.op = "update" /\ c.dieAtStart = "closed") =>
                (c.calls = 0 /\ c.puts = 0 /\ ~c.sawOpen /\ c.pc # "default"))
    /\ [][\A c \in BagToSet(running) :
            (c.op = "update" /\ c.dieAtStart = "closed"
                /\ CopiesIn(c, running') < CopiesIn(c, running)) =>
                UNCHANGED <<stats, sched, received, die>>]_vars

\* C6 witness: a tick that started after die was closed has run its body
\* and is about to return, having done nothing
C6_Witness ==
    \E c \in Calls :
        /\ c.op = "update" /\ c.tick /\ c.dieAtStart = "closed" /\ c.pc = "unlock"
        /\ c.calls = 0 /\ c.puts = 0

\* no tick of p is submitted, and no Update call of p is calling or has just
\* called the engine
LoopStopped(p) ==
    /\ TicksPending(p) = 0
    /\ \A c \in BagToSet(running) :
          (c.op = "update" /\ c.peer = p) => (c.pc # "default" /\ c.calls = 0)

\* C7: once Close has been invoked the update loop eventually stops for good:
\* from some state on no tick is pending, none is submitted and the engine's
\* Update is not called again (an Update the owner calls then is a no-op).
C7_LoopStopsAfterClose ==
    \A p \in LivePeers : (closeCalls[p] > 0) ~> [](LoopStopped(p))

\* C7 witness: a loop was running, Close stopped it, and a tick that was
\* pending at shutdown has come and gone
C7_Witness ==
    \E p \in Peers :
        /\ ownerUpdates[p] > 0 /\ die[p] = "closed" /\ ticksAfterClose[p] > 0
        /\ TicksPending(p) = 0 /\ UpdatesRunning(p) = 0

\* an Update call of p has just called the engine's Update
JustUpdated(p) ==
    \E c \in BagToSet(running) :
        c.op = "update" /\ c.peer = p /\ c.pc = "unlock" /\ c.calls = 1

\* C8: while running the tick perpetuates itself: once the owner has called
\* Update, and as long as Close has not been invoked, a tick is pending or an
\* Update is executing, and the engine's Update is called again and again.
C8_LoopPerpetuates ==
    /\ [](\A p \in Peers :
            (ownerUpdates[p] >= 1 /\ closeCalls[p] = 0) =>
                TicksPending(p) + UpdatesRunning(p) >= 1)
    /\ \A p \in LivePeers :
          (ownerUpdates[p] >= 1) ~> (closeCalls[p] > 0 \/ JustUpdated(p))

\* C8 witness: a tick run by the scheduler (not the owner's call) has called
\* the engine, Close not having been invoked
C8_Witness ==
    \E c \in Calls :
        /\ c.op = "update" /\ c.tick /\ c.pc = "unlock" /\ c.calls = 1
        /\ ownerUpdates[c.peer] = 1 /\ closeCalls[c.peer] = 0

\* C9 as stated: at most one tick is pending when Close is invoked, so at most
\* one tick is started after die is closed.
C9_AtMostOneTickAfterClose ==
    \A p \in Peers : ticksAfterClose[p] <= 1

\* C9 amended: at most as many ticks are pending as the owner has made Update
\* calls on the transport, so at most that many ticks are started after die
\* is closed (at most one when the owner called Update once).
C9_TicksAfterCloseBounded ==
    \A p \in Peers :
        /\ TicksPending(p) <= ownerUpdates[p]
        /\ ticksAfterClose[p] <= ownerUpdates[p]

\* C9 witness: the owner called Update once, and the one tick pending at
\* shutdown was started after die was closed and has ended the loop
C9_Witness ==
    \E p \in Peers :
        /\ ownerUpdates[p] = 1 /\ die[p] = "closed" /\ ticksAfterClose[p] = 1
        /\ TicksPending(p) = 0 /\ UpdatesRunning(p) = 0

\* call c is inside a lock-guarded section
InGuarded(c) == c.pc \in {"body", "default", "unlock"}
Holders(p) == LET P(c) == c.peer = p /\ InGuarded(c) IN CountCalls(P)
StatsOf(p) == <<msgCount[p], bytesCount[p], minLatency[p], maxLatency[p], totalLatency[p]>>

\* C10: no two lock-guarded sections of a transport (delivery body, Update
\* body, Propose, GetLatestState, GetMessageCount, GetBytesCount, GetLatencies)
\* execute at once; the mutex is held exactly while one does; and the counters,
\* the latencies and the engine's inbox change only under the lock.
C10_MutualExclusion ==
    /\ [](\A p \in Peers :
            /\ Holders(p) <= 1
            /\ locked[p] <=> (Holders(p) = 1))
    /\ [][\A p \in Peers :
            (StatsOf(p)' # StatsOf(p) \/ received'[p] # received[p]) =>
                (locked[p] /\ locked'[p])]_vars

\* C10 witness: a delivery is inside its guarded section while an Update and
\* an accessor or passthrough of the same transport wait for the lock
C10_Witness ==
    \E c1, c2, c3 \in Calls :
        /\ c1.op = "tx" /\ c1.pc = "body"
        /\ c2.op = "update" /\ c2.pc = "lock" /\ c2.peer = c1.peer
        /\ c3.op \in ReadOps /\ c3.pc = "lock" /\ c3.peer = c1.peer

\* some call in progress takes a step
CallStep ==
    \E c \in Calls :
        \/ Lock(c) \/ Unlock(c) \/ txDelay(c) \/ UpdateSelect(c) \/ UpdateDefault(c)
        \/ OnceDo(c) \/ OnceLock(c) \/ OnceSlow(c) \/ OnceDone(c)
        \/ GetMessageCount(c) \/ GetBytesCount(c) \/ GetLatencies(c)
        \/ Propose(c) \/ GetLatestState(c)

\* C11: Send never blocks and never fails: in every state, the lock held or
\* not, die closed or not, a Send the owner makes completes at once and
\* returns nil; and whenever calls are in progress one of them can take a
\* step (no deadlock).
C11_SendNeverBlocks ==
    /\ \A p \in Live : \A n \in workload.lens : \A z \in workload.samples :
          TotalSends < workload.sends => ENABLED Send(p, n, z)
    /\ \A p \in Peers : \A i \in 1..Len(sent[p]) : ~sent[p][i].err
    /\ Calls # {} => ENABLED CallStep

\* C11 witness: one Send was made while a delivery held the transport's lock,
\* another after die was closed, and both returned nil
C11_Witness ==
    \E p \in Peers : \E i, j \in 1..Len(sent[p]) :
        /\ sent[p][i].held /\ ~sent[p][i].err
        /\ sent[p][j].closed /\ ~sent[p][j].err

\* a delivery closure of p runs its body in this step
Delivers(p) ==
    \E c \in BagToSet(running) :
        /\ c.op = "tx" /\ c.peer = p /\ c.pc = "body"
        /\ CopiesIn(c, running') < CopiesIn(c, running)

\* C12: statistics change at delivery, not at submission: a Send changes
\* none of the five statistics and calls nothing of the engine; they change
\* only in the body of a delivery closure; so an accessor returns the count of
\* the deliveries made, whatever has been sent and not yet delivered.
C12_StatsChangeAtDelivery ==
    /\ [][\A p \in Peers :
            /\ (sent'[p] # sent[p]) =>
                  (UNCHANGED <<stats, received, running>>)
            /\ (StatsOf(p)' # StatsOf(p)) => Delivers(p)]_vars
    /\ [](\A c \in BagToSet(running) :
            (c.op = "GetMessageCount" /\ c.pc = "unlock") =>
                c.ret = <<Len(received[c.peer])>>)

\* C12 witness: a message has been sent, its delivery task has not fired, and
\* GetMessageCount is returning the count from before the Send
C12_Witness ==
    \E c \in Calls :
        /\ c.op = "GetMessageCount" /\ c.pc = "unlock" /\ c.ret = <<0>>
        /\ Len(sent[c.peer]) >= 1
        /\ \E t \in Tasks : t.kind = "tx" /\ t.peer = c.peer

\* message i of transport p reached the engine before message j did
Before(p, i, j) ==
    \E k, l \in 1..Len(received[p]) :
        k < l /\ received[p][k] = i /\ received[p][l] = j

\* C13: delivery order is not tied to submission order: whichever deliveries
\* of a transport are submitted, any of them may be started next, and
\* whichever wait for the free lock, any of them may take it (no FIFO
\* constraint); and in whatever order they reach the engine, each message
\* sent reaches it at most once.
C13_NoFifo ==
    /\ \A t \in Tasks : t.kind = "tx" => ENABLED Fire(t)
    /\ \A c \in Calls :
          (c.op = "tx" /\ c.pc = "lock" /\ ~locked[c.peer]) => ENABLED Lock(c)
    /\ \A p \in Peers :
          /\ \A k \in 1..Len(received[p]) : received[p][k] \in 1..Len(sent[p])
          /\ \A k, l \in 1..Len(received[p]) :
                received[p][k] = received[p][l] => k = l

\* C13 witness: of three messages sent in the order A, B, C, all delivered
\* once, B reached the engine before A and A before C
C13_Witness ==
    \E p \in Peers :
        /\ Len(sent[p]) = 3 /\ Len(received[p]) = 3
        /\ \A i \in 1..3 : Deliveries(p, i) = 1
        /\ Before(p, 2, 1)
        /\ Before(p, 1, 3)

\* the statistics of p after a delay d and a payload of n bytes were recorded
Counted(p, d, n) ==
    /\ msgCount'[p] = msgCount[p] + 1
    /\ bytesCount'[p] = bytesCount[p] + n
    /\ totalLatency'[p] = totalLatency[p] + d
    /\ minLatency'[p] = (IF d < minLatency[p] THEN d ELSE minLatency[p])
    /\ maxLatency'[p] = (IF d > maxLatency[p] THEN d ELSE maxLatency[p])

\* C14: an error of the engine's ReceiveMessage is swallowed: the Send has
\* returned nil, the message is counted in all five statistics as an accepted
\* one is, the closure goes on to release the lock, and what is left of the
\* delivery once it has returned does not depend on the error.
C14_ReceiveErrorSwallowed ==
    /\ [](\A c \in Calls :
            (c.op = "tx" /\ c.pc = "unlock" /\ c.err) =>
                /\ ~sent[c.peer][c.id].err
                /\ Deliveries(c.peer, c.id) = 1
                /\ ENABLED Unlock(c))
    /\ [][\A c \in BagToSet(running) :
            /\ (c.op = "tx" /\ c.pc = "body" /\ CopiesIn(c, running') < CopiesIn(c, running)) =>
                  /\ Counted(c.peer, c.delay, c.msg)
                  /\ received'[c.peer] = Append(received[c.peer], c.id)
                  /\ \E e \in BOOLEAN :
                        running' = Move(c, [c EXCEPT !.pc = "unlock", !.calls = 1, !.err = e])
            /\ (c.op = "tx" /\ c.pc = "unlock" /\ CopiesIn(c, running') < CopiesIn(c, running)) =>
                  /\ ~locked'[c.peer]
                  /\ running' = Return(c)
                  /\ UNCHANGED <<stats, sched, sent, received, die>>]_vars

\* C14 witness: the engine has rejected the second message delivered to it;
\* the message is counted with the first and the closure is about to unlock
C14_Witness ==
    \E c \in Calls :
        /\ c.op = "tx" /\ c.pc = "unlock" /\ c.err /\ c.calls = 1
        /\ Len(received[c.peer]) = 2 /\ received[c.peer][2] = c.id
        /\ msgCount[c.peer] = 2
        /\ bytesCount[c.peer] = PayloadSum(c.peer)

\* a step of the call c
StepOf(c) ==
    \/ Lock(c) \/ Unlock(c) \/ txDelay(c) \/ UpdateSelect(c) \/ UpdateDefault(c)
    \/ OnceDo(c) \/ OnceLock(c) \/ OnceSlow(c) \/ OnceDone(c)
    \/ GetMessageCount(c) \/ GetBytesCount(c) \/ GetLatencies(c)
    \/ Propose(c) \/ GetLatestState(c)

\* everything transport p holds, and the ticks and deliveries submitted for it
PeerState(p) ==
    <<locked[p], die[p], onceDone[p], onceM[p], StatsOf(p), received[p], sent[p],
      [t \in {x \in BagToSet(sched) : x.peer = p} |-> CopiesIn(t, sched)]>>

\* C15: transports are independent: a call on a transport waits for nothing
\* but that transport's own lock (or its own Once), so it proceeds whatever
\* locks of other transports are held; and no step on a transport, Close
\* included, changes the termination signal, the pending ticks, the statistics
\* or the lock of another.
C15_TransportsIndependent ==
    /\ [](\A c \in Calls :
            \/ ENABLED StepOf(c)
            \/ c.pc = "lock" /\ locked[c.peer]
            \/ c.pc = "onceLock" /\ onceM[c.peer])
    /\ [][\A p, q \in Peers :
            (p # q /\ PeerState(p)' # PeerState(p)) => PeerState(q)' = PeerState(q)]_vars
    /\ [][\A c \in BagToSet(running) : \A q \in Peers :
            (CopiesIn(c, running') < CopiesIn(c, running) /\ q # c.peer) =>
                PeerState(q)' = PeerState(q)]_vars

\* C15 witness: transport A is closed and a delivery holds its lock, while an
\* Update on transport B, still open, has taken B's lock and passed the
\* termination check
C15_Witness ==
    \E c1, c2 \in Calls :
        /\ c1.peer # c2.peer
        /\ c1.op = "tx" /\ c1.pc = "body" /\ die[c1.peer] = "closed"
        /\ c2.op = "update" /\ c2.pc = "default" /\ die[c2.peer] = "open"
        /\ locked[c1.peer] /\ locked[c2.peer]

\* the delays sampled for the deliveries of p that have executed
ExecutedDelays(p) == {sent[p][i].delay : i \in Executed(p)}

\* C16 as stated: once a delivery has executed, GetLatencies returns as
\* minimum the smallest and as maximum the largest delay sampled for the
\* executed deliveries, negative delays included.
C16_ExactExtrema ==
    \A c \in BagToSet(running) :
        (c.op = "GetLatencies" /\ c.pc = "unlock" /\ Executed(c.peer) # {}) =>
            /\ c.ret[1] \in ExecutedDelays(c.peer)
            /\ \A d \in ExecutedDelays(c.peer) : c.ret[1] <= d
            /\ c.ret[2] \in ExecutedDelays(c.peer)
            /\ \A d \in ExecutedDelays(c.peer) : d <= c.ret[2]

\* the Update calls of p that have passed the termination check and have not
\* yet called the engine
PastCheck(p) ==
    LET P(c) == c.op = "update" /\ c.peer = p /\ c.pc = "default" IN CountCalls(P)
\* the Update calls of p that have called the engine and not yet returned
HaveUpdated(p) ==
    LET P(c) == c.op = "update" /\ c.peer = p /\ c.calls > 0 IN CountCalls(P)

\* C17: Close takes no transport lock, so it proceeds while an Update holds
\* the lock; once die is closed (and so once Close has completed) no further
\* Update passes the termination check, every call of the engine's Update
\* and every tick submission is made by one that had passed it before, one
\* each, and a tick that starts afterwards does nothing.
C17_CloseRaceBounded ==
    /\ [](\A c \in Calls :
            (c.op = "close" /\ locked[c.peer]) =>
                (ENABLED StepOf(c) \/ (c.pc = "onceLock" /\ onceM[c.peer])))
    /\ [](\A c \in BagToSet(running) :
            (c.op = "update" /\ c.dieAtStart = "closed") => (c.calls = 0 /\ c.puts = 0))
    /\ [][\A p \in Peers :
            (die[p] = "closed") =>
                /\ PastCheck(p)' <= PastCheck(p)
                /\ HaveUpdated(p)' - HaveUpdated(p) <= PastCheck(p) - PastCheck(p)'
                /\ TicksPending(p)' - TicksPending(p) <= PastCheck(p) - PastCheck(p)']_vars

\* C17 witness: Close has completed while an Update, past the termination
\* check, holds the lock and has still to call the engine and submit its tick
C17_Witness ==
    \E c \in Calls :
        /\ c.op = "update" /\ c.pc = "default" /\ locked[c.peer]
        /\ die[c.peer] = "closed"
        /\ closeCalls[c.peer] > 0 /\ ClosesRunning(c.peer) = 0

\* the delivery of message i of p: submitted, or started and not yet in its
\* body, or made
InFlight(p, i) ==
    LET T(t) == t.kind = "tx" /\ t.peer = p /\ t.id = i
        R(c) == c.op = "tx" /\ c.peer = p /\ c.id = i /\ c.calls = 0
    IN CountTasks(T) + CountCalls(R)

\* C18: Send does not consult die: a Send made after die is closed submits
\* its delivery task as one made before does, and the task, when it runs,
\* counts the message and hands it to the engine as before shutdown; every
\* message sent is either still on its way or delivered, Close or no Close.
C18_SendAfterCloseDelivers ==
    /\ [](\A p \in Peers : \A i \in 1..Len(sent[p]) :
            InFlight(p, i) + Deliveries(p, i) = 1)
    /\ [][\A p \in Peers :
            (sent'[p] # sent[p] /\ die[p] = "closed") =>
                /\ Len(sent'[p]) = Len(sent[p]) + 1
                /\ \E k \in {Len(sent[p]) + 1} : InFlight(p, k)' = 1
                /\ BagCardinality(sched') = BagCardinality(sched) + 1]_vars
    /\ [][\A c \in BagToSet(running) :
            (c.op = "tx" /\ c.pc = "body" /\ die[c.peer] = "closed"
                /\ CopiesIn(c, running') < CopiesIn(c, running)) =>
                  /\ Counted(c.peer, c.delay, c.msg)
                  /\ received'[c.peer] = Append(received[c.peer], c.id)]_vars

\* C18 witness: a message sent after die was closed has been delivered to the
\* engine and counted
C18_Witness ==
    \E p \in Peers : \E i \in 1..Len(sent[p]) :
        /\ sent[p][i].closed
        /\ Deliveries(p, i) = 1
        /\ msgCount[p] = Len(received[p])
        /\ closeCalls[p] > 0 /\ ClosesRunning(p) = 0 /\ die[p] = "closed"

\* the Update calls of p in progress that the scheduler started
TicksRunning(p) ==
    LET P(c) == c.op = "update" /\ c.peer = p /\ c.tick IN CountCalls(P)

\* the Update calls of p in progress, the owner's or the scheduler's, that
\* have not submitted a successor
Unarmed(p) ==
    LET P(c) == c.op = "update" /\ c.peer = p /\ c.puts = 0 IN CountCalls(P)

\* C19 as stated: the ticks of a transport that are pending in the scheduler
\* or executing are at most the Update calls the owner has made on it.
C19_TicksAtMostOwnerCalls ==
    \A p \in Peers : TicksPending(p) + TicksRunning(p) <= ownerUpdates[p]

\* C19 amended: tick chains are created only by the owner: the ticks of a
\* transport that are pending, together with its Update calls in progress
\* that have not submitted their successor, are at most the Update calls the
\* owner has made on it; and no Update submits more than one successor.
C19_ChainsOnlyFromOwner ==
    \A p \in Peers :
        /\ TicksPending(p) + Unarmed(p) <= ownerUpdates[p]
        /\ \A c \in BagToSet(running) : (c.op = "update" /\ c.peer = p) => c.puts <= 1

\* C19 witness: the owner has called Update twice on a running transport and
\* both chains are alive: one tick is pending, and one is executing and has
\* its successor still to submit
C19_Witness ==
    \E p \in Peers :
        /\ ownerUpdates[p] = 2 /\ closeCalls[p] = 0
        /\ TicksPending(p) = 1 /\ TicksRunning(p) = 1 /\ Unarmed(p) = 1
====
